---- MODULE Spec2Model ----
(***************************************************************************)
(* State-machine model of entrypoint.py (the COS mirror-sync action):      *)
(* input resolution, glob matching, staging into a temporary directory,    *)
(* upload with the accelerated-endpoint fallback, and the CDN purge.       *)
(*                                                                         *)
(* Strings that the program inspects are sequences of one-character        *)
(* strings; filesystem paths are sequences of path components.  External   *)
(* commands are recorded in the log cmds with the exit status the         *)
(* environment chose for them.                                            *)
(***************************************************************************)
EXTENDS Integers, Sequences, FiniteSets, TLC

VARIABLES
    pc,             \* position in main()
    fs,             \* the filesystem: type of every path of the universe
    scanRev,        \* directory listing order of the filesystem (scandir)
    envChanges,     \* number of changes other processes made to the workspace
    cwd,            \* Path.cwd()
    nread,          \* how many of the four opaque required inputs were read
    prefix,         \* normalize_prefix(get_input("prefix"))
    artifacts_raw,  \* get_input("artifacts")
    flush_url,      \* get_input("flush_url")
    delete_raw,     \* INPUT_DELETE_REMOTE as found in the environment
    delete_remote,  \* parse_bool(...)
    patterns,       \* split_patterns(artifacts_raw)
    paths,          \* resolve_paths(patterns)
    idx,            \* index of the next path stage_paths handles
    staged,         \* the staging tree: type of every relative destination
    copied,         \* number of times a file was written at each destination
    cmds,           \* external commands invoked so far, with their exit status
    exitCode,       \* process exit status, -1 while running
    stderr          \* what was written to the error stream on termination

vars == <<pc, fs, scanRev, envChanges, cwd, nread, prefix, artifacts_raw,
          flush_url, delete_raw, delete_remote, patterns, paths, idx, staged,
          copied, cmds, exitCode, stderr>>

----------------------------------------------------------------------------
(* Bounds of the model *)

\* longest INPUT_ARTIFACTS value, counted in tokens (patterns and separators)
MaxRaw == 3
\* changes other processes may make to the workspace while it is being staged
MaxEnvChanges == 1

----------------------------------------------------------------------------
(* Sequence helpers *)

IsPrefix(s, t) == Len(s) <= Len(t) /\ SubSeq(t, 1, Len(s)) = s

Front(s) == SubSeq(s, 1, Len(s) - 1)

RECURSIVE Flatten(_)
Flatten(ss) == IF ss = <<>> THEN <<>> ELSE Head(ss) \o Flatten(Tail(ss))

SeqsUpTo(S, n) == UNION {[1..k -> S] : k \in 0..n}

----------------------------------------------------------------------------
(* The filesystem.  "/" is <<>>; the runner's workspace is /w; /o lies      *)
(* outside the workspace.                                                   *)

WorkspaceRoot == <<"w">>

FsUniverse == {<<"w">>, <<"w", "d">>, <<"w", "d", "f">>, <<"w", "d", "g">>, <<"o">>}

InitialFs ==
    [p \in FsUniverse |->
        IF p \in {<<"w">>, <<"w", "d">>} THEN "dir" ELSE "file"]

Names == <<"d", "f", "g", "o", "w">>

FsType(f, p) ==
    IF p = <<>> THEN "dir" ELSE IF p \in FsUniverse THEN f[p] ELSE "none"

\* the entries of directory dir in the order the filesystem lists them
Listing(f, rev, dir) ==
    LET present == SelectSeq(Names, LAMBDA n : FsType(f, Append(dir, n)) # "none")
    IN  IF rev THEN [i \in 1..Len(present) |-> present[Len(present) + 1 - i]]
        ELSE present

\* Path.resolve(): ".." components are folded away (no symlinks in the universe)
RECURSIVE ResolveFrom(_, _)
ResolveFrom(base, rel) ==
    IF rel = <<>> THEN base
    ELSE IF Head(rel) = ".."
         THEN ResolveFrom(IF base = <<>> THEN <<>> ELSE Front(base), Tail(rel))
         ELSE ResolveFrom(Append(base, Head(rel)), Tail(rel))

\* Path.relative_to(): defined only when root is a prefix of p
Inside(p, root) == IsPrefix(root, p)
RelativeTo(p, root) == SubSeq(p, Len(root) + 1, Len(p))

----------------------------------------------------------------------------
(* Input resolution: get_input, parse_bool, normalize_prefix *)

Whitespace == {" ", "\t", "\n"}

RECURSIVE LStrip(_)
LStrip(s) == IF s # <<>> /\ Head(s) \in Whitespace THEN LStrip(Tail(s)) ELSE s

RECURSIVE RStrip(_)
RStrip(s) == IF s # <<>> /\ s[Len(s)] \in Whitespace THEN RStrip(Front(s)) ELSE s

\* str.strip()
Strip(s) == RStrip(LStrip(s))

LowerChar(c) ==
    CASE c = "A" -> "a" [] c = "E" -> "e" [] c = "F" -> "f" [] c = "L" -> "l"
      [] c = "N" -> "n" [] c = "O" -> "o" [] c = "R" -> "r" [] c = "S" -> "s"
      [] c = "T" -> "t" [] c = "U" -> "u" [] c = "Y" -> "y" [] OTHER -> c

\* str.lower()
Lower(s) == [i \in 1..Len(s) |-> LowerChar(s[i])]

TrueWords == {<<"t", "r", "u", "e">>, <<"1">>, <<"y", "e", "s">>, <<"y">>}

FalseWords == {<<"f", "a", "l", "s", "e">>, <<"0">>, <<"n", "o">>, <<"n">>, <<>>}

\* parse_bool without lower(): a variant the claims must tell apart
parse_bool_CaseSensitive(val) ==
    LET normalized == Strip(val)
    IN  IF normalized \in TrueWords THEN "true"
        ELSE IF normalized \in FalseWords THEN "false"
        ELSE "invalid"

\* parse_bool: "true", "false" or "invalid" (the call of error())
parse_bool(val) ==
    LET normalized == Lower(Strip(val))
    IN  IF normalized \in TrueWords THEN "true"
        ELSE IF normalized \in FalseWords THEN "false"
        ELSE "invalid"

\* get_input: the value used, where <<>> is the empty string; a required
\* input whose value is empty is the call of error()
get_input(val, default) == IF val = <<>> THEN default ELSE val

normalize_prefix(p) ==
    IF p # <<>> /\ p[Len(p)] = "/" THEN p ELSE Append(p, "/")

----------------------------------------------------------------------------
(* Pattern matching: split_patterns, glob.glob, resolve_paths *)

\* str.split(sep): the pieces between the separators, empty pieces included
RECURSIVE SplitBy(_, _, _)
SplitBy(s, sep, cur) ==
    IF s = <<>> THEN <<cur>>
    ELSE IF Head(s) = sep THEN <<cur>> \o SplitBy(Tail(s), sep, <<>>)
    ELSE SplitBy(Tail(s), sep, Append(cur, Head(s)))

split_patterns(raw) ==
    LET tokens  == SplitBy(raw, ",", <<>>)
        lines   == Flatten([i \in 1..Len(tokens) |-> SplitBy(tokens[i], "\n", <<>>)])
        cleaned == [i \in 1..Len(lines) |-> Strip(lines[i])]
    IN  SelectSeq(cleaned, LAMBDA c : c # <<>>)

\* the path components of a pattern word
Components(w) ==
    CASE w = "d"    -> <<"d">>
      [] w = "d/f"  -> <<"d", "f">>
      [] w = "d/**" -> <<"d", "**">>
      [] w = "*"    -> <<"*">>
      [] w = "../o" -> <<"..", "o">>
      [] w = "z"    -> <<"z">>
      [] OTHER      -> <<w>>

\* a directory and everything below it, depth first, as recursive glob lists it
RECURSIVE Walk(_, _, _, _)
Walk(f, rev, base, rel) ==
    LET ls == Listing(f, rev, base)
    IN  Flatten([i \in 1..Len(ls) |->
            <<Append(rel, ls[i])>> \o
            (IF FsType(f, Append(base, ls[i])) = "dir"
             THEN Walk(f, rev, Append(base, ls[i]), Append(rel, ls[i]))
             ELSE <<>>)])

\* the matches of the components pat below directory base, named rel
RECURSIVE Match(_, _, _, _, _)
Match(f, rev, base, rel, pat) ==
    IF pat = <<>> THEN (IF FsType(f, base) # "none" THEN <<rel>> ELSE <<>>)
    ELSE IF FsType(f, base) # "dir" THEN <<>>
    ELSE IF Head(pat) = ".."
         THEN Match(f, rev, IF base = <<>> THEN <<>> ELSE Front(base),
                    Append(rel, ".."), Tail(pat))
    ELSE IF Head(pat) = "**"
         THEN (IF rel = <<>> THEN <<>> ELSE <<rel>>) \o Walk(f, rev, base, rel)
    ELSE IF Head(pat) = "*"
         THEN LET ls == Listing(f, rev, base)
              IN  Flatten([i \in 1..Len(ls) |->
                      Match(f, rev, Append(base, ls[i]), Append(rel, ls[i]), Tail(pat))])
    ELSE Match(f, rev, Append(base, Head(pat)), Append(rel, Head(pat)), Tail(pat))

\* glob.glob(pat, recursive=True) run in directory dir; a pattern of several
\* words holds blanks and names nothing in the universe
Glob(f, rev, dir, pat) ==
    IF Len(pat) = 1 THEN Match(f, rev, dir, <<>>, Components(pat[1])) ELSE <<>>

\* resolve_paths failing only when no pattern matches at all: a variant the
\* claims must tell apart
Unmatched_OnlyIfAll(f, rev, dir, pats) ==
    \A i \in 1..Len(pats) : Glob(f, rev, dir, pats[i]) = <<>>

\* resolve_paths: the matches of all patterns in order; Unmatched is the call
\* of error() at the first pattern without a match
Unmatched(f, rev, dir, pats) ==
    \E i \in 1..Len(pats) : Glob(f, rev, dir, pats[i]) = <<>>

resolve_paths(f, rev, dir, pats) ==
    Flatten([i \in 1..Len(pats) |-> Glob(f, rev, dir, pats[i])])

----------------------------------------------------------------------------
(* Staging: stage_paths and the shutil calls it makes *)

\* the destinations of the staging tree, relative to the staging root: the
\* sources' paths relative to a working root, and NAME/NAME, where copy2
\* writes a file whose destination NAME is a directory
SourceRels ==
    UNION {{RelativeTo(p, c) : p \in {q \in FsUniverse : Inside(q, c)}} :
           c \in {<<"w">>, <<"w", "d">>}}

RelUniverse == SourceRels \cup {Append(r, r[Len(r)]) : r \in SourceRels \ {<<>>}}

EmptyTree == [r \in RelUniverse |-> "none"]

NoCopies == [r \in RelUniverse |-> 0]

ProperPrefixes(p) == {SubSeq(p, 1, k) : k \in 0..(Len(p) - 1)}

\* dest.parent.mkdir(parents=True, exist_ok=True)
MkdirParents(st, dest) ==
    [r \in RelUniverse |-> IF r \in ProperPrefixes(dest) THEN "dir" ELSE st[r]]

MkdirFails(st, dest) == \E a \in ProperPrefixes(dest) : st[a] = "file"

\* shutil.copytree(abs_src, dest, dirs_exist_ok=True): every entry below
\* abs_src is copied over the tree.  A directory whose destination is a file
\* cannot be made (makedirs raises); a file whose destination is a directory
\* is written into that directory under its own name (copy2), unless that
\* name is a directory too (copy2 raises).  copytree collects the errors,
\* goes on with the remaining entries and raises at the end.
CopyTarget(f, st, abs_src, dest, q) ==
    LET d == dest \o RelativeTo(q, abs_src)
    IN  IF f[q] = "file" /\ st[d] = "dir" THEN Append(d, q[Len(q)]) ELSE d

CopyConflict(f, st, abs_src, dest, q) ==
    LET t == CopyTarget(f, st, abs_src, dest, q)
    IN  \/ f[q] = "dir" /\ st[t] = "file"
        \/ f[q] = "file" /\ st[t] = "dir"

CopyReached(f, st, abs_src, dest, q) ==
    /\ q \in FsUniverse
    /\ Inside(q, abs_src)
    /\ f[q] # "none"
    /\ \A a \in ProperPrefixes(q) :
          Inside(a, abs_src) => f[a] = "dir" /\ ~CopyConflict(f, st, abs_src, dest, a)

CopyWritten(f, st, abs_src, dest, r) ==
    {q \in FsUniverse :
        /\ CopyReached(f, st, abs_src, dest, q)
        /\ ~CopyConflict(f, st, abs_src, dest, q)
        /\ CopyTarget(f, st, abs_src, dest, q) = r}

\* copytree leaving an existing destination directory as it is: a variant
\* the claims must tell apart
copytree_KeepsExisting(f, st, cp, abs_src, dest) ==
    [staged |-> [r \in RelUniverse |->
                    IF st[dest] = "none" /\ CopyWritten(f, st, abs_src, dest, r) # {}
                    THEN f[CHOOSE q \in CopyWritten(f, st, abs_src, dest, r) : TRUE]
                    ELSE st[r]],
     copied |-> [r \in RelUniverse |->
                    IF /\ st[dest] = "none"
                       /\ \E q \in CopyWritten(f, st, abs_src, dest, r) : f[q] = "file"
                    THEN cp[r] + 1 ELSE cp[r]],
     failed |-> FALSE]

copytree(f, st, cp, abs_src, dest) ==
    [staged |-> [r \in RelUniverse |->
                    IF CopyWritten(f, st, abs_src, dest, r) # {}
                    THEN f[CHOOSE q \in CopyWritten(f, st, abs_src, dest, r) : TRUE]
                    ELSE st[r]],
     copied |-> [r \in RelUniverse |->
                    IF \E q \in CopyWritten(f, st, abs_src, dest, r) : f[q] = "file"
                    THEN cp[r] + 1 ELSE cp[r]],
     failed |-> \E q \in FsUniverse :
                    CopyReached(f, st, abs_src, dest, q)
                    /\ CopyConflict(f, st, abs_src, dest, q)]

\* shutil.copy2(abs_src, dest): a destination that is a directory receives
\* the file under its own name
copy2(st, cp, dest) ==
    LET t == IF st[dest] = "dir" THEN Append(dest, dest[Len(dest)]) ELSE dest
    IN  [staged |-> [st EXCEPT ![t] = "file"],
         copied |-> [cp EXCEPT ![t] = @ + 1]]

\* stage_paths, line 76: dest.exists() and dest.is_file()
DirCollision(st, dest) == st[dest] = "file"

\* variants of the two checks of the file branch that the claims must tell
\* apart: no skip of a staged file, no check for a staged directory
AlreadyStaged_Never(st, dest) == FALSE

FileCollision_Unchecked(st, dest) == FALSE

\* stage_paths, lines 82-83: dest.exists() and dest.is_file()
AlreadyStaged(st, dest) == st[dest] = "file"

\* stage_paths, lines 82 and 86: dest exists and is no file
FileCollision(st, dest) == st[dest] = "dir"

\* one iteration of the loop of stage_paths for the path src: what happens
\* (out) and the staging tree and copy counts it leaves
stage_one(f, st, cp, dir, src) ==
    LET abs_src == ResolveFrom(dir, src)
        dest    == RelativeTo(abs_src, dir)
        same    == [out |-> "", staged |-> st, copied |-> cp]
    IN  IF ~Inside(abs_src, dir)
        THEN [same EXCEPT !.out = "Path must be within workspace"]
        ELSE IF FsType(f, abs_src) = "dir"
        THEN IF DirCollision(st, dest)
             THEN [same EXCEPT !.out = "Collision while staging directory"]
             ELSE IF MkdirFails(st, dest)
             THEN [same EXCEPT !.out = "mkdir raised"]
             ELSE LET c == copytree(f, MkdirParents(st, dest), cp, abs_src, dest)
                  IN  [out    |-> IF c.failed THEN "copytree raised"
                                  ELSE "Staging directory",
                       staged |-> c.staged,
                       copied |-> c.copied]
        ELSE IF FsType(f, abs_src) = "file"
        THEN IF AlreadyStaged(st, dest)
             THEN [same EXCEPT !.out = "Skipping already staged file"]
             ELSE IF FileCollision(st, dest)
             THEN [same EXCEPT !.out = "Collision while staging file"]
             ELSE IF MkdirFails(st, dest)
             THEN [same EXCEPT !.out = "mkdir raised"]
             ELSE LET c == copy2(MkdirParents(st, dest), cp, dest)
                  IN  [out |-> "Staging file", staged |-> c.staged, copied |-> c.copied]
        ELSE [same EXCEPT !.out = "Path is neither file nor directory"]

\* the outcomes of stage_one that are calls of error()
StageErrors ==
    {"Path must be within workspace", "Collision while staging directory",
     "Collision while staging file", "Path is neither file nor directory"}

\* the outcomes of stage_one that are exceptions nobody catches
StageRaises == {"mkdir raised", "copytree raised"}

----------------------------------------------------------------------------
(* Values the environment may supply *)

\* secret_id, secret_key, region, bucket: unset or set
OpaqueValues == {<<>>, <<"v">>}

PrefixValues == {<<>>, <<"p">>, <<"p", "/">>}

\* INPUT_ARTIFACTS: pattern words and the separators between them
RawTokens == {"d", "d/f", "d/**", "*", "../o", "z", ",", "\n", " "}

FlushValues == {<<>>, <<"u">>}

DeleteValues ==
    {<<>>, <<" ">>, <<"t", "r", "u", "e">>, <<"1">>, <<" ", "Y", "e", "s", " ">>,
     <<"Y">>, <<"F", "A", "L", "S", "E">>, <<"0">>, <<"n", "o", "\t">>, <<"n">>,
     <<"o", "n">>, <<"2">>, <<"y", " ", "e", "s">>}

\* one value of each outcome of parse_bool
DeleteSample == {<<>>, <<" ", "Y", "e", "s", " ">>, <<"o", "n">>}

\* two INPUT_ARTIFACTS values: an overlap of a file and its directory, and a
\* pattern without a match
RawSample == {<<"d/f", ",", "d">>, <<"*">>, <<"z">>}

\* INPUT_WORKING_DIRECTORY: unset, blank, or one path
WorkingDirValues == {<<>>, <<" ">>, <<"d", " ">>, <<"d/f">>, <<"../o">>, <<"z">>}

\* exit status of an external command
ExitStatus == {0, 2}

----------------------------------------------------------------------------
(* External commands *)

ConfigCmd(accelerate) ==
    [tool |-> "coscmd",
     args |-> <<"config", "-a", "secret_id", "-s", "secret_key", "-b", "bucket">> \o
              (IF accelerate
               THEN <<"-e", "cos.accelerate.myqcloud.com", "--retry", "5",
                      "--timeout", "60">>
               ELSE <<"-r", "region", "--retry", "1", "--timeout", "10", "-m", "1">>),
     target |-> <<>>,
     cwd |-> "",
     staging |-> EmptyTree,
     rc |-> 0]

UploadFlags(del) == <<"-rs", "--yes">> \o (IF del THEN <<"--delete">> ELSE <<>>)

UploadCmd(del, pfx) ==
    [tool |-> "coscmd",
     args |-> <<"upload">> \o UploadFlags(del) \o <<".">>,
     target |-> pfx,
     cwd |-> "staging_root",
     staging |-> EmptyTree,
     rc |-> 0]

PurgeCmd(url) ==
    [tool |-> "tccli",
     args |-> <<"cdn", "PurgePathCache", "--cli-unfold-argument", "--Paths",
                "--FlushType", "flush">>,
     target |-> url,
     cwd |-> "",
     staging |-> EmptyTree,
     rc |-> 0]

\* run_cmd: the command joins the log with the staging tree it found and the
\* exit status it ended with
Ran(cmd, rc) == Append(cmds, [cmd EXCEPT !.rc = rc, !.staging = staged])

----------------------------------------------------------------------------
(* Termination *)

\* error(msg): the message on the error stream, then sys.exit(1)
Error(msg) ==
    /\ pc' = "exit"
    /\ exitCode' = 1
    /\ stderr' = <<"::error::", msg>>

\* the exit status of the failed command passed on as the status of the run:
\* a variant the claims must tell apart
Uncaught_CommandStatus(exc) ==
    /\ pc' = "exit"
    /\ exitCode' = 2
    /\ stderr' = <<"Traceback", exc>>

\* an exception nobody catches: the interpreter prints the traceback and
\* exits with status 1
Uncaught(exc) ==
    /\ pc' = "exit"
    /\ exitCode' = 1
    /\ stderr' = <<"Traceback", exc>>

\* a staging directory that is never removed: a variant the claims must tell
\* apart
CleanedUp_Kept == staged

\* leaving the block of tempfile.TemporaryDirectory(), by its end or by an
\* exception (SystemExit included): the directory is removed
CleanedUp == EmptyTree

----------------------------------------------------------------------------
(* The program *)

Init ==
    /\ pc = "required"
    /\ fs = InitialFs
    /\ scanRev \in BOOLEAN
    /\ envChanges = 0
    /\ cwd = WorkspaceRoot
    /\ nread = 0
    /\ prefix = <<>>
    /\ artifacts_raw = <<>>
    /\ flush_url = <<>>
    /\ delete_raw = <<>>
    /\ delete_remote = FALSE
    /\ patterns = <<>>
    /\ paths = <<>>
    /\ idx = 0
    /\ staged = EmptyTree
    /\ copied = NoCopies
    /\ cmds = <<>>
    /\ exitCode = -1
    /\ stderr = <<>>

\* main, lines 117-120: secret_id, secret_key, region, bucket
ReadRequired ==
    /\ pc = "required"
    /\ \E val \in OpaqueValues :
          IF get_input(val, <<>>) = <<>>
          THEN Error("Missing required input") /\ UNCHANGED nread
          ELSE /\ nread' = nread + 1
               /\ pc' = IF nread + 1 = 4 THEN "prefix" ELSE "required"
               /\ UNCHANGED <<exitCode, stderr>>
    /\ UNCHANGED <<fs, scanRev, envChanges, cwd, prefix, artifacts_raw, flush_url,
                   delete_raw, delete_remote, patterns, paths, idx, staged, copied,
                   cmds>>

\* main, line 121
ReadPrefix ==
    /\ pc = "prefix"
    /\ \E val \in PrefixValues :
          IF get_input(val, <<>>) = <<>>
          THEN Error("Missing required input") /\ UNCHANGED prefix
          ELSE /\ prefix' = normalize_prefix(get_input(val, <<>>))
               /\ pc' = "artifacts"
               /\ UNCHANGED <<exitCode, stderr>>
    /\ UNCHANGED <<fs, scanRev, envChanges, cwd, nread, artifacts_raw, flush_url,
                   delete_raw, delete_remote, patterns, paths, idx, staged, copied,
                   cmds>>

\* main, line 122
ReadArtifacts(values) ==
    /\ pc = "artifacts"
    /\ \E val \in values :
          IF get_input(val, <<>>) = <<>>
          THEN Error("Missing required input") /\ UNCHANGED artifacts_raw
          ELSE /\ artifacts_raw' = get_input(val, <<>>)
               /\ pc' = "flush_url"
               /\ UNCHANGED <<exitCode, stderr>>
    /\ UNCHANGED <<fs, scanRev, envChanges, cwd, nread, prefix, flush_url,
                   delete_raw, delete_remote, patterns, paths, idx, staged, copied,
                   cmds>>

\* main, line 123
ReadFlushUrl ==
    /\ pc = "flush_url"
    /\ \E val \in FlushValues : flush_url' = get_input(val, <<>>)
    /\ pc' = "delete_remote"
    /\ UNCHANGED <<fs, scanRev, envChanges, cwd, nread, prefix, artifacts_raw,
                   delete_raw, delete_remote, patterns, paths, idx, staged, copied,
                   cmds, exitCode, stderr>>

\* main, line 124
ReadDeleteRemote(values) ==
    /\ pc = "delete_remote"
    /\ \E val \in values :
          LET b == parse_bool(get_input(val, <<"f", "a", "l", "s", "e">>))
          IN  /\ delete_raw' = val
              /\ IF b = "invalid"
                 THEN Error("Invalid boolean value for delete_remote")
                      /\ UNCHANGED delete_remote
                 ELSE /\ delete_remote' = (b = "true")
                      /\ pc' = "working_directory"
                      /\ UNCHANGED <<exitCode, stderr>>
    /\ UNCHANGED <<fs, scanRev, envChanges, cwd, nread, prefix, artifacts_raw,
                   flush_url, patterns, paths, idx, staged, copied, cmds>>

\* main, lines 125-136
ChangeDirectory ==
    /\ pc = "working_directory"
    /\ \E val \in WorkingDirValues :
          LET working_dir_raw == Strip(get_input(val, <<>>))
              working_dir == ResolveFrom(WorkspaceRoot, Components(working_dir_raw[1]))
          IN  IF working_dir_raw = <<>>
              THEN pc' = "split" /\ UNCHANGED <<cwd, exitCode, stderr>>
              ELSE IF ~Inside(working_dir, WorkspaceRoot)
              THEN Error("working_directory must be inside the workspace")
                   /\ UNCHANGED cwd
              ELSE IF FsType(fs, working_dir) # "dir"
              THEN Error("working_directory does not exist or is not a directory")
                   /\ UNCHANGED cwd
              ELSE cwd' = working_dir /\ pc' = "split" /\ UNCHANGED <<exitCode, stderr>>
    /\ UNCHANGED <<fs, scanRev, envChanges, nread, prefix, artifacts_raw, flush_url,
                   delete_raw, delete_remote, patterns, paths, idx, staged, copied,
                   cmds>>

\* main, lines 138-140
SplitPatterns ==
    /\ pc = "split"
    /\ patterns' = split_patterns(artifacts_raw)
    /\ artifacts_raw' = <<>>  \* not read after line 138
    /\ IF split_patterns(artifacts_raw) = <<>>
       THEN Error("No artifact patterns provided after normalization")
       ELSE pc' = "resolve" /\ UNCHANGED <<exitCode, stderr>>
    /\ UNCHANGED <<fs, scanRev, envChanges, cwd, nread, prefix, flush_url,
                   delete_raw, delete_remote, paths, idx, staged, copied, cmds>>

\* main, line 142
ResolvePaths ==
    /\ pc = "resolve"
    /\ IF Unmatched(fs, scanRev, cwd, patterns)
       THEN Error("No files matched pattern") /\ UNCHANGED paths
       ELSE /\ paths' = resolve_paths(fs, scanRev, cwd, patterns)
            /\ pc' = "configure"
            /\ UNCHANGED <<exitCode, stderr>>
    /\ UNCHANGED <<fs, scanRev, envChanges, cwd, nread, prefix, artifacts_raw,
                   flush_url, delete_raw, delete_remote, patterns, idx, staged,
                   copied, cmds>>

\* main, lines 144-145
ConfigureRegional ==
    /\ pc = "configure"
    /\ \E rc \in ExitStatus :
          /\ cmds' = Ran(ConfigCmd(FALSE), rc)
          /\ IF rc # 0
             THEN Uncaught("CalledProcessError")
             ELSE pc' = "mkdtemp" /\ UNCHANGED <<exitCode, stderr>>
    /\ UNCHANGED <<fs, scanRev, envChanges, cwd, nread, prefix, artifacts_raw,
                   flush_url, delete_raw, delete_remote, patterns, paths, idx,
                   staged, copied>>

\* main, lines 147-149: the staging directory is created
CreateStaging ==
    /\ pc = "mkdtemp"
    /\ staged' = [EmptyTree EXCEPT ![<<>>] = "dir"]
    /\ idx' = 1
    /\ pc' = "stage"
    /\ UNCHANGED <<fs, scanRev, envChanges, cwd, nread, prefix, artifacts_raw,
                   flush_url, delete_raw, delete_remote, patterns, paths, copied,
                   cmds, exitCode, stderr>>

\* stage_paths, lines 67-91: one iteration of the loop
StagePath ==
    /\ pc = "stage"
    /\ LET r == stage_one(fs, staged, copied, cwd, paths[idx])
       IN  /\ copied' = r.copied
           /\ IF r.out \in StageErrors
              THEN Error(r.out) /\ staged' = CleanedUp /\ UNCHANGED idx
              ELSE IF r.out \in StageRaises
              THEN Uncaught(r.out) /\ staged' = CleanedUp /\ UNCHANGED idx
              ELSE /\ staged' = r.staged
                   /\ idx' = idx + 1
                   /\ pc' = IF idx = Len(paths) THEN "upload" ELSE "stage"
                   /\ UNCHANGED <<exitCode, stderr>>
    /\ UNCHANGED <<fs, scanRev, envChanges, cwd, nread, prefix, artifacts_raw,
                   flush_url, delete_raw, delete_remote, patterns, paths, cmds>>

\* another process of the job changes the workspace while it is being
\* staged: an entry below the working root is removed, replaced by an entry
\* of the other type, or created
WorkspaceChange ==
    /\ pc = "stage"
    /\ envChanges < MaxEnvChanges
    /\ \E p \in FsUniverse, t \in {"none", "file", "dir"} :
          /\ Inside(p, cwd) /\ p # cwd
          /\ t # fs[p]
          /\ FsType(fs, Front(p)) = "dir"
          /\ fs' = [q \in FsUniverse |->
                       IF q = p THEN t
                       ELSE IF Inside(q, p) THEN "none"
                       ELSE fs[q]]
    /\ envChanges' = envChanges + 1
    /\ UNCHANGED <<pc, scanRev, cwd, nread, prefix, artifacts_raw, flush_url,
                   delete_raw, delete_remote, patterns, paths, idx, staged, copied,
                   cmds, exitCode, stderr>>

\* main, lines 152-161: the upload through the regional endpoint
UploadRegional ==
    /\ pc = "upload"
    /\ \E rc \in ExitStatus :
          /\ cmds' = Ran(UploadCmd(delete_remote, prefix), rc)
          /\ IF rc = 0
             THEN pc' = "purge" /\ staged' = CleanedUp
             ELSE pc' = "accelerate" /\ UNCHANGED staged
    /\ UNCHANGED <<fs, scanRev, envChanges, cwd, nread, prefix, artifacts_raw,
                   flush_url, delete_raw, delete_remote, patterns, paths, idx,
                   copied, exitCode, stderr>>

\* main, lines 162-163: the handler of the failed upload reconfigures
ConfigureAccelerate ==
    /\ pc = "accelerate"
    /\ \E rc \in ExitStatus :
          /\ cmds' = Ran(ConfigCmd(TRUE), rc)
          /\ IF rc # 0
             THEN Uncaught("CalledProcessError") /\ staged' = CleanedUp
             ELSE pc' = "retry" /\ UNCHANGED <<staged, exitCode, stderr>>
    /\ UNCHANGED <<fs, scanRev, envChanges, cwd, nread, prefix, artifacts_raw,
                   flush_url, delete_raw, delete_remote, patterns, paths, idx,
                   copied>>

\* a retry whose failure is not fatal: a variant the claims must tell apart
UploadAccelerate_IgnoresFailure ==
    /\ pc = "retry"
    /\ \E rc \in ExitStatus : cmds' = Ran(UploadCmd(delete_remote, prefix), rc)
    /\ pc' = "purge"
    /\ staged' = EmptyTree
    /\ UNCHANGED <<fs, scanRev, envChanges, cwd, nread, prefix, artifacts_raw,
                   flush_url, delete_raw, delete_remote, patterns, paths, idx,
                   copied, exitCode, stderr>>

\* main, lines 164-170: the upload through the accelerated endpoint
UploadAccelerate ==
    /\ pc = "retry"
    /\ \E rc \in ExitStatus :
          /\ cmds' = Ran(UploadCmd(delete_remote, prefix), rc)
          /\ IF rc # 0
             THEN Error("Upload failed after retry with accelerate endpoint")
             ELSE pc' = "purge" /\ UNCHANGED <<exitCode, stderr>>
    /\ staged' = CleanedUp
    /\ UNCHANGED <<fs, scanRev, envChanges, cwd, nread, prefix, artifacts_raw,
                   flush_url, delete_raw, delete_remote, patterns, paths, idx,
                   copied>>

\* a purge that does not look at the flush target: a variant the claims must
\* tell apart
PurgeWanted_Always(url) == TRUE

\* main, line 172: if flush_url
PurgeWanted(url) == url # <<>>

\* main, lines 172-183, and the end of the program
Purge ==
    /\ pc = "purge"
    /\ IF PurgeWanted(flush_url)
       THEN \E rc \in ExitStatus :
               /\ cmds' = Ran(PurgeCmd(flush_url), rc)
               /\ IF rc # 0
                  THEN Uncaught("CalledProcessError")
                  ELSE pc' = "exit" /\ exitCode' = 0 /\ UNCHANGED stderr
       ELSE pc' = "exit" /\ exitCode' = 0 /\ UNCHANGED <<cmds, stderr>>
    /\ UNCHANGED <<fs, scanRev, envChanges, cwd, nread, prefix, artifacts_raw,
                   flush_url, delete_raw, delete_remote, patterns, paths, idx,
                   staged, copied>>

Next ==
    \/ ReadRequired
    \/ ReadPrefix
    \/ ReadArtifacts(SeqsUpTo(RawTokens, MaxRaw))
    \/ ReadFlushUrl
    \/ ReadDeleteRemote(DeleteSample)
    \/ ChangeDirectory
    \/ SplitPatterns
    \/ ResolvePaths
    \/ ConfigureRegional
    \/ CreateStaging
    \/ StagePath
    \/ WorkspaceChange
    \/ UploadRegional
    \/ ConfigureAccelerate
    \/ UploadAccelerate
    \/ Purge

Spec == Init /\ [][Next]_vars

\* the same program, with every spelling of delete_remote and a sample of
\* artifact lists
NextBool ==
    \/ ReadRequired
    \/ ReadPrefix
    \/ ReadArtifacts(RawSample)
    \/ ReadFlushUrl
    \/ ReadDeleteRemote(DeleteValues)
    \/ ChangeDirectory
    \/ SplitPatterns
    \/ ResolvePaths
    \/ ConfigureRegional
    \/ CreateStaging
    \/ StagePath
    \/ WorkspaceChange
    \/ UploadRegional
    \/ ConfigureAccelerate
    \/ UploadAccelerate
    \/ Purge

SpecBool == Init /\ [][NextBool]_vars

----------------------------------------------------------------------------
(* Reading the command log *)

IsUpload(c) == c.tool = "coscmd" /\ c.args[1] = "upload"

IsConfig(c) == c.tool = "coscmd" /\ c.args[1] = "config"

IsAccelerated(c) == IsConfig(c) /\ \E i \in 1..Len(c.args) : c.args[i] = "-e"

IsPurge(c) == c.tool = "tccli"

Uploads == SelectSeq(cmds, IsUpload)

AccelerateConfigs == SelectSeq(cmds, IsAccelerated)

Purges == SelectSeq(cmds, IsPurge)

HasDeleteFlag(c) == \E i \in 1..Len(c.args) : c.args[i] = "--delete"

\* two invocations of the same command: only the exit status may differ
SameInvocation(c1, c2) == [c1 EXCEPT !.rc = 0] = [c2 EXCEPT !.rc = 0]

Terminated == pc = "exit"

----------------------------------------------------------------------------
(* C1: upload with endpoint fallback *)

\* C1 as claimed: whenever the regional upload exits non-zero, the run has,
\* by its end, configured the accelerated endpoint and invoked the same
\* upload a second time.
C1_RetriedOnAnyFailure ==
    (Terminated /\ Uploads # <<>> /\ Uploads[1].rc # 0)
        => /\ Len(AccelerateConfigs) = 1
           /\ Len(Uploads) = 2
           /\ SameInvocation(Uploads[1], Uploads[2])

\* C1 amended: after a non-zero exit of the regional upload the accelerated
\* endpoint is configured exactly once; the same upload (flags, prefix,
\* staging root and its content) is retried exactly once if that configure
\* command succeeds, and the run ends with exit code 1 without a second
\* upload if it fails.  The upload is never invoked more than twice, the
\* accelerated configuration never unless the regional upload failed, and a
\* failure of the second upload ends the run with exit code 1.
C1_FallbackOnce ==
    /\ Len(Uploads) <= 2
    /\ Len(AccelerateConfigs) <= 1
    /\ AccelerateConfigs # <<>>
          => /\ Uploads # <<>> /\ Uploads[1].rc # 0
             /\ \E i \in 2..Len(cmds) :
                   IsAccelerated(cmds[i]) /\ cmds[i - 1] = Uploads[1]
    /\ (Uploads # <<>> /\ Uploads[1].rc = 0) => Len(Uploads) = 1
    /\ (Terminated /\ Uploads # <<>> /\ Uploads[1].rc # 0)
          => /\ Len(AccelerateConfigs) = 1
             /\ AccelerateConfigs[1].rc = 0
                   => /\ Len(Uploads) = 2
                      /\ SameInvocation(Uploads[1], Uploads[2])
                      /\ Uploads[2].cwd = "staging_root"
             /\ AccelerateConfigs[1].rc # 0
                   => Len(Uploads) = 1 /\ exitCode = 1
    /\ (Len(Uploads) = 2 /\ Uploads[2].rc # 0) => Terminated /\ exitCode = 1

\* the regional upload failed, the retry succeeded and the run ended well
C1_Witness ==
    /\ Terminated /\ exitCode = 0
    /\ Len(Uploads) = 2 /\ Uploads[1].rc # 0 /\ Uploads[2].rc = 0

----------------------------------------------------------------------------
(* C2: fail-fast pattern matching *)

\* C2: when some pattern of the list matches nothing (in the workspace as
\* glob finds it), the run gets no further than resolve_paths: it ends with
\* exit code 1, and at that moment nothing has been copied, no staging
\* directory exists and no external command has been invoked.
C2_FailFastBeforeStaging ==
    (/\ envChanges = 0
     /\ \E i \in 1..Len(patterns) : Glob(fs, scanRev, cwd, patterns[i]) = <<>>)
        => /\ pc = "resolve" \/ (Terminated /\ exitCode = 1)
           /\ copied = NoCopies
           /\ staged = EmptyTree
           /\ cmds = <<>>

\* the run ended on a list whose first pattern matched and whose second did not
C2_Witness ==
    /\ Terminated
    /\ stderr = <<"::error::", "No files matched pattern">>
    /\ Len(patterns) = 2
    /\ Glob(fs, scanRev, cwd, patterns[1]) # <<>>
    /\ Glob(fs, scanRev, cwd, patterns[2]) = <<>>

----------------------------------------------------------------------------
(* C3: a path outside the root *)

\* C3 as claimed: when staging rejects a path outside the working root, the
\* run ends with exit code 1, nothing has been copied into the staging tree
\* (the paths before the rejected one included) and no external tool has
\* been configured or invoked.
C3_OutsideRootNoSideEffects ==
    (Terminated /\ stderr = <<"::error::", "Path must be within workspace">>)
        => /\ exitCode = 1
           /\ copied = NoCopies
           /\ cmds = <<>>

----------------------------------------------------------------------------
(* C4: the staging directory is a scoped resource *)

\* C4: the staging directory exists in no terminal state, whichever way the
\* run ends, and it is gone before the purge command is invoked.
C4_StagingScoped ==
    /\ Terminated => staged = EmptyTree
    /\ pc = "purge" => staged = EmptyTree
    /\ \A i \in 1..Len(cmds) : IsPurge(cmds[i]) => cmds[i].staging = EmptyTree

\* files were staged and uploaded, and the purge command has been invoked
C4_Witness ==
    /\ Terminated
    /\ Purges # <<>>
    /\ \E i \in 1..Len(cmds) :
          IsUpload(cmds[i]) /\ \E r \in RelUniverse : cmds[i].staging[r] = "file"

----------------------------------------------------------------------------
(* C5: every failure is fatal *)

LastCmd == cmds[Len(cmds)]

\* C5 as claimed: every run that ends unsuccessfully ends with exit code 1
\* after a message reported through error().
C5_AllFailuresThroughError ==
    (Terminated /\ exitCode # 0) => exitCode = 1 /\ stderr # <<>> /\ stderr[1] = "::error::"

\* C5 amended: the only terminal states are exit 0 and exit 1.  Every failure
\* ends the run at once with exit code 1 and a message on the error stream:
\* through error() for a missing or invalid input, an unmatched pattern, a
\* path outside the root, a staging collision and the failure of both
\* uploads; as the traceback of the uncaught exception for a failed
\* configure or purge command and for an exception of the copy library.
\* Exit 0 is reached only if an upload succeeded and, when a flush target was
\* given, the purge command succeeded as well.
C5_FailuresFatal ==
    /\ exitCode \in {-1, 0, 1}
    /\ Terminated <=> exitCode # -1
    /\ exitCode = 1 <=> stderr # <<>>
    /\ exitCode = 1
          => /\ stderr[1] \in {"::error::", "Traceback"}
             /\ stderr[1] = "Traceback"
                   <=> \/ stderr[2] \in StageRaises
                       \/ /\ cmds # <<>> /\ LastCmd.rc # 0
                          /\ IsConfig(LastCmd) \/ IsPurge(LastCmd)
    /\ \A i \in 1..Len(cmds) :
          cmds[i].rc # 0
             => IF IsUpload(cmds[i]) /\ \A j \in 1..(i - 1) : ~IsUpload(cmds[j])
                THEN i = Len(cmds) => pc = "accelerate"
                ELSE i = Len(cmds) /\ Terminated /\ exitCode = 1
    /\ (Len(Uploads) = 2 /\ Uploads[2].rc # 0)
          => stderr = <<"::error::", "Upload failed after retry with accelerate endpoint">>
    /\ exitCode = 0
          => /\ \E i \in 1..Len(Uploads) : Uploads[i].rc = 0
             /\ \A i \in 1..Len(cmds) : cmds[i].rc # 0 => IsUpload(cmds[i])
             /\ flush_url # <<>> => IsPurge(LastCmd) /\ LastCmd.rc = 0

\* the purge command failed after a successful upload
C5_Witness ==
    /\ Terminated /\ exitCode = 1
    /\ cmds # <<>> /\ IsPurge(LastCmd) /\ LastCmd.rc # 0
    /\ stderr[1] = "Traceback"

----------------------------------------------------------------------------
(* C6: overlapping patterns *)

\* the destination of path i of the list, relative to the staging root
DestOf(i) == RelativeTo(ResolveFrom(cwd, paths[i]), cwd)

InsideRoot(i) == Inside(ResolveFrom(cwd, paths[i]), cwd)

\* path i reaches the file whose destination is r: it is that file, or a
\* directory above it
Reaches(i, r) ==
    /\ InsideRoot(i)
    /\ IsPrefix(DestOf(i), r)
    /\ FsType(fs, cwd \o r) = "file"

IsDirectory(i) == FsType(fs, ResolveFrom(cwd, paths[i])) = "dir"

\* the paths stage_paths has handled so far
Handled == 1..(idx - 1)

StagingDone == paths # <<>> /\ idx = Len(paths) + 1

StagingFailed == stderr # <<>> /\ stderr[2] \in StageErrors \cup StageRaises

\* C6 as claimed: once staging is complete, a file that the list of paths
\* reaches more than once, at least once as the file itself, has been copied
\* into the staging tree exactly once.
C6_CopiedExactlyOnce ==
    (StagingDone /\ envChanges = 0)
        => \A r \in RelUniverse :
              (/\ Cardinality({i \in 1..Len(paths) : Reaches(i, r)}) >= 2
               /\ \E i \in 1..Len(paths) : Reaches(i, r) /\ ~IsDirectory(i))
                  => copied[r] = 1

\* C6 amended: a file reached more than once is staged at one destination
\* and the run does not fail because of the overlap.  An occurrence of the
\* file itself after it has been staged is skipped without copying; every
\* occurrence of a directory that holds it copies it again over the staged
\* copy.  So the file is copied once for its first occurrence and once more
\* for each later directory that holds it.
C6_OverlapMerges ==
    envChanges = 0
        => /\ StagingFailed => stderr[2] = "Path must be within workspace"
           /\ \A r \in RelUniverse :
                 copied[r] =
                    Cardinality({i \in Handled :
                        /\ Reaches(i, r)
                        /\ IsDirectory(i) \/ \A j \in 1..(i - 1) : ~Reaches(j, r)})
           /\ pc = "upload"
                 => \A r \in RelUniverse : copied[r] >= 1 => staged[r] = "file"

\* staging is complete; one file was copied twice (itself, then its
\* directory) and a later occurrence of a file was skipped
C6_Witness ==
    /\ StagingDone /\ envChanges = 0
    /\ \E r \in RelUniverse : copied[r] = 2
    /\ \E r \in RelUniverse, i \in 1..Len(paths) :
          /\ ~IsDirectory(i) /\ Reaches(i, r)
          /\ \E j \in 1..(i - 1) : Reaches(j, r)

----------------------------------------------------------------------------
(* C7: the CDN purge *)

UploadSucceeded == \E i \in 1..Len(Uploads) : Uploads[i].rc = 0

\* C7: the purge command is invoked at most once, only with a flush target
\* and only after a successful upload, as the last command of the run; a run
\* with a successful upload ends with the purge invoked if a flush target was
\* given, and otherwise with no purge and exit code 0.
C7_PurgeGated ==
    /\ Len(Purges) <= 1
    /\ Purges # <<>>
          => /\ flush_url # <<>>
             /\ Purges[1].target = flush_url
             /\ IsPurge(cmds[Len(cmds)])
             /\ IsUpload(cmds[Len(cmds) - 1]) /\ cmds[Len(cmds) - 1].rc = 0
    /\ (Terminated /\ UploadSucceeded /\ flush_url # <<>>) => Len(Purges) = 1
    /\ (Terminated /\ UploadSucceeded /\ flush_url = <<>>)
          => Purges = <<>> /\ exitCode = 0
    /\ (Len(Uploads) = 2 /\ Uploads[2].rc # 0) => Purges = <<>>

\* the purge ran after the accelerated retry succeeded
C7_Witness ==
    /\ Terminated /\ exitCode = 0
    /\ Len(Purges) = 1 /\ Len(Uploads) = 2

----------------------------------------------------------------------------
(* C8: the delete flag *)

ClaimedTrue == {<<"t", "r", "u", "e">>, <<"1">>, <<"y", "e", "s">>, <<"y">>}

ClaimedFalse == {<<"f", "a", "l", "s", "e">>, <<"0">>, <<"n", "o">>, <<"n">>, <<>>}

\* C8: with the delete_remote input trimmed and lower-cased, a value in
\* {true,1,yes,y} puts the delete flag on every upload of the run, a value in
\* {false,0,no,n,empty} on none, and any other value ends the run with exit
\* code 1 before any external command; no other value is rejected.
C8_DeleteFlagFollowsInput ==
    LET v == Lower(Strip(delete_raw))
    IN  /\ \A i \in 1..Len(Uploads) : HasDeleteFlag(Uploads[i]) <=> v \in ClaimedTrue
        /\ v \notin ClaimedTrue \cup ClaimedFalse
              => Terminated /\ exitCode = 1 /\ cmds = <<>>
        /\ stderr = <<"::error::", "Invalid boolean value for delete_remote">>
              <=> v \notin ClaimedTrue \cup ClaimedFalse
        /\ Uploads # <<>> => v \in ClaimedTrue \cup ClaimedFalse

\* both uploads of a run carried the delete flag for the input " Yes "
C8_Witness ==
    /\ delete_raw = <<" ", "Y", "e", "s", " ">>
    /\ Len(Uploads) = 2
    /\ HasDeleteFlag(Uploads[1]) /\ HasDeleteFlag(Uploads[2])

----------------------------------------------------------------------------
(* C9: the staged tree mirrors the sources *)

\* the destination r is a file that some path of the list reaches
CoveredFile(r) == \E i \in 1..Len(paths) : Reaches(i, r)

\* the destination r is a matched directory, a directory below one, or a
\* directory above a matched path
CoveredDirectory(r) ==
    \/ r = <<>>
    \/ \E i \in 1..Len(paths) :
          /\ InsideRoot(i)
          /\ \/ IsPrefix(DestOf(i), r) /\ FsType(fs, cwd \o r) = "dir"
             \/ r \in ProperPrefixes(DestOf(i))

\* C9: when stage_paths has returned, the files of the staging tree are
\* exactly the files the paths reach, each at its path relative to the
\* working root; the only other entries are the directories that hold them
\* and the matched directories.  The tree is a function of the set of paths,
\* whatever their order.
C9_StagedTreeMirrorsSources ==
    (pc = "upload" /\ envChanges = 0)
        => \A r \in RelUniverse :
              staged[r] = IF CoveredFile(r) THEN "file"
                          ELSE IF CoveredDirectory(r) THEN "dir"
                          ELSE "none"

\* stage_paths returned after staging a file and then the directory that
\* holds it with another file
C9_Witness ==
    /\ pc = "upload" /\ envChanges = 0
    /\ Len(paths) >= 2
    /\ ~IsDirectory(1) /\ IsDirectory(2)
    /\ Cardinality({r \in RelUniverse : staged[r] = "file"}) = 2

----------------------------------------------------------------------------
(* C10: no staged destination changes type *)

\* the path stage_paths handles next is of the other type than the entry at
\* its destination
TypeMismatch ==
    /\ pc = "stage"
    /\ InsideRoot(idx)
    /\ \/ IsDirectory(idx) /\ staged[DestOf(idx)] = "file"
       \/ FsType(fs, ResolveFrom(cwd, paths[idx])) = "file" /\ staged[DestOf(idx)] = "dir"

\* C10: no step turns a staged file into a directory or a staged directory
\* into a file, and the staging step of a path whose type differs from the
\* entry at its destination writes nothing and ends the run with exit code 1.
C10_NoTypeChange ==
    [][/\ \A r \in RelUniverse :
             /\ staged[r] = "file" => staged'[r] # "dir"
             /\ staged[r] = "dir" => staged'[r] # "file"
       /\ (TypeMismatch /\ fs' = fs)
             => /\ pc' = "exit" /\ exitCode' = 1
                /\ copied' = copied
                /\ \A r \in RelUniverse : staged'[r] \in {staged[r], "none"}]_vars

\* the run ended on a file whose destination was staged as a directory
C10_Witness ==
    /\ Terminated /\ exitCode = 1
    /\ stderr = <<"::error::", "Collision while staging file">>

====
